---- MODULE Spec2Model ----
(***************************************************************************)
(* Live-Life: the Tavus session client (TavusService) and the React hooks  *)
(* that drive a conversation with it (useTherapySession and the two        *)
(* revisions of useTavusConversation).                                     *)
(*                                                                         *)
(* The repository holds three revisions of the client/hook pair; the       *)
(* variable rev says which one a behaviour runs:                           *)
(*   "therapy"  src/src/hooks/useTherapySession.ts with the TavusService   *)
(*              of src/src/services/tavusService.ts lines 1-303            *)
(*   "persona"  useTavusConversation of src/src/components/StatCard.tsx    *)
(*              lines 26-251 with the TavusService of src/unnamed/part_005 *)
(*   "replica"  useTavusConversation of src/src/components/StatCard.tsx    *)
(*              lines 252-432 with the TavusService of                     *)
(*              src/src/services/tavusService.ts lines 304-522             *)
(*                                                                         *)
(* Strings the code inspects (credentials, vendor messages, chat text) are *)
(* sequences of one-character strings, so that includes(), toLowerCase()   *)
(* and length are computed as JavaScript computes them.  An error message  *)
(* is a sequence of strings: <<>> is null, <<"text">> a fixed text, and    *)
(* <<"Tavus API error: ">> \o m the template literal around the vendor's   *)
(* message m.                                                              *)
(***************************************************************************)
EXTENDS Naturals, Sequences, FiniteSets

VARIABLES
  rev,             \* which revision of client and hook runs
  apiKey,          \* TavusService.apiKey       (VITE_TAVUS_API_KEY || '')
  personaId,       \* TavusService.personaId    (VITE_TAVUS_PERSONA_ID || '')
  call,            \* the last call made directly on the TavusService
  phase,           \* "client" | "mounting" | "mounted" | "unmounted"
  persona,         \* hook state: <<>> is null, <<name>> a loaded persona
  conversation,    \* hook state: NoConversation or the conversation_id
  conversationRef, \* hook ref conversationRef.current
  messages,        \* hook state
  isLoading,       \* hook state
  isConnected,     \* hook state
  error,           \* hook state: <<>> is null
  sessionStatus,   \* hook state (useTherapySession only)
  inflight,        \* promises and timers that have not settled yet
  vendorLive,      \* conversations the vendor holds that are not ended
  http,            \* HTTP requests issued so far, counted by endpoint
  notified,        \* calls made to onSessionStart/onSessionEnd/onError/onMessage
  calls,           \* calls made to the hook's functions
  thrown,          \* <<function, message>> for every error a hook function threw
  answered,        \* the vendor's last answer to a request of the hook
  stale,           \* create calls during whose request end was called
  isVideoEnabled,  \* hook state
  isAudioEnabled,  \* hook state
  autoStart,       \* option autoStart of useTavusConversation
  effectDue        \* a dependency of the auto-start effect changed

vars == <<rev, apiKey, personaId, call, phase, persona, conversation,
          conversationRef, messages, isLoading, isConnected, error,
          sessionStatus, inflight, vendorLive, http, notified, calls, thrown,
          answered, stale, isVideoEnabled, isAudioEnabled, autoStart,
          effectDue>>

hookVars == <<persona, conversation, conversationRef, messages, isLoading,
              isConnected, error, sessionStatus, inflight, vendorLive, http,
              notified, calls, thrown, answered, stale, isVideoEnabled,
              isAudioEnabled, autoStart, effectDue>>

----------------------------------------------------------------------------
(* Bounds of the model *)

MaxCalls == 3      \* calls the component makes to the functions of a hook

----------------------------------------------------------------------------
(* JavaScript strings *)

Truthy(s) == Len(s) > 0

includes(s, sub) ==
  \E i \in 1..(Len(s) + 1) :
     /\ i + Len(sub) - 1 <= Len(s)
     /\ \A j \in 1..Len(sub) : s[i + j - 1] = sub[j]

toLowerCaseChar(c) ==
  CASE c = "P" -> "p" [] c = "Q" -> "q" [] c = "L" -> "l" [] c = "I" -> "i"
    [] c = "M" -> "m" [] c = "T" -> "t" [] c = "S" -> "s" [] c = "O" -> "o"
    [] OTHER -> c

toLowerCase(s) == [i \in 1..Len(s) |-> toLowerCaseChar(s[i])]

your_tavus_api_key_here ==
  <<"y", "o", "u", "r", "_", "t", "a", "v", "u", "s", "_", "a", "p", "i", "_",
    "k", "e", "y", "_", "h", "e", "r", "e">>
your_actual_tavus_api_key_here ==
  <<"y", "o", "u", "r", "_", "a", "c", "t", "u", "a", "l", "_", "t", "a", "v",
    "u", "s", "_", "a", "p", "i", "_", "k", "e", "y", "_", "h", "e", "r", "e">>
your_persona_id_here ==
  <<"y", "o", "u", "r", "_", "p", "e", "r", "s", "o", "n", "a", "_", "i", "d",
    "_", "h", "e", "r", "e">>
your_actual_persona_id_here ==
  <<"y", "o", "u", "r", "_", "a", "c", "t", "u", "a", "l", "_", "p", "e", "r",
    "s", "o", "n", "a", "_", "i", "d", "_", "h", "e", "r", "e">>
default_persona ==
  <<"d", "e", "f", "a", "u", "l", "t", "-", "p", "e", "r", "s", "o", "n", "a">>

(* The words the client looks for in a vendor message *)
w_persona == <<"p", "e", "r", "s", "o", "n", "a">>
w_not_found == <<"n", "o", "t", " ", "f", "o", "u", "n", "d">>
w_api_key == <<"a", "p", "i", " ", "k", "e", "y">>
w_authentication ==
  <<"a", "u", "t", "h", "e", "n", "t", "i", "c", "a", "t", "i", "o", "n">>
w_quota == <<"q", "u", "o", "t", "a">>
w_limit == <<"l", "i", "m", "i", "t">>
Bad_request == <<"B", "a", "d", " ", "r", "e", "q", "u", "e", "s", "t">>

----------------------------------------------------------------------------
(* Inputs: credentials a deployment may configure, and vendor responses *)

Empty == <<>>
Blank1 == <<" ">>
Blank11 == <<" ", " ", " ", " ", " ", " ", " ", " ", " ", " ", " ">>
ShortKey == <<"t", "v", "s", "-", "k", "e", "y">>
GoodKey == <<"t", "v", "s", "-", "0", "1", "2", "3", "4", "5", "6", "7", "8", "9">>
ShortPersona == <<"p", "-", "1", "2", "3">>
GoodPersona == <<"p", "-", "0", "1", "2", "3", "4", "5", "6", "7", "8", "9">>

ApiKeys ==
  {Empty, Blank1, Blank11, ShortKey, GoodKey, your_tavus_api_key_here,
   your_actual_tavus_api_key_here, <<"x">> \o your_tavus_api_key_here,
   your_persona_id_here}

PersonaIds ==
  {Empty, Blank1, Blank11, ShortPersona, GoodPersona, your_persona_id_here,
   your_actual_persona_id_here, default_persona}

IsBlank(s) == \A i \in 1..Len(s) : s[i] = " "

Sentinels ==
  {your_tavus_api_key_here, your_actual_tavus_api_key_here,
   your_persona_id_here, your_actual_persona_id_here}

PersonaGone == <<"P", "e", "r", "s", "o", "n", "a", " ", "g", "o", "n", "e">>
QuotaUsedUp == <<"Q", "u", "o", "t", "a", " ", "u", "s", "e", "d", " ", "u", "p">>
OverTheLimit ==
  <<"O", "v", "e", "r", " ", "t", "h", "e", " ", "L", "I", "M", "I", "T">>
ServerBusy == <<"S", "e", "r", "v", "e", "r", " ", "b", "u", "s", "y">>
KeyRejected ==
  <<"a", "p", "i", " ", "k", "e", "y", " ", "r", "e", "j", "e", "c", "t", "e", "d">>
NoSuchThing == <<"n", "o", "t", " ", "f", "o", "u", "n", "d">>

(* An axios outcome.  status 200 is a response of success; status 0 is an  *)
(* error without a response (error.response undefined); message and err    *)
(* are response.data.message and response.data.error; code is error.code;  *)
(* name is the persona_name/name of a persona body (<<>>: the body has     *)
(* none).                                                                  *)
Response(status, message, err, code, name) ==
  [status |-> status, message |-> message, err |-> err, code |-> code,
   name |-> name]

Ok == Response(200, <<>>, <<>>, "", <<>>)
OkNamed == Response(200, <<>>, <<>>, "", <<"Dr. Sam">>)
Status(n) == Response(n, <<>>, <<>>, "", <<>>)
StatusMessage(n, m) == Response(n, m, <<>>, "", <<>>)
NetworkError == Response(0, <<>>, <<>>, "ERR_NETWORK", <<>>)
Aborted == Response(0, <<>>, <<>>, "ECONNABORTED", <<>>)

Failures ==
  {Status(400), StatusMessage(400, PersonaGone), StatusMessage(400, QuotaUsedUp),
   StatusMessage(400, OverTheLimit), StatusMessage(400, ServerBusy),
   Response(400, <<>>, PersonaGone, "", <<>>),
   Status(401), Status(403), Status(404), Status(429), Status(500),
   StatusMessage(500, ServerBusy), StatusMessage(404, ServerBusy),
   StatusMessage(401, ServerBusy), NetworkError, Aborted,
   StatusMessage(500, QuotaUsedUp), StatusMessage(400, KeyRejected),
   StatusMessage(400, NoSuchThing)}

Responses == {Ok, OkNamed} \cup Failures

(* What a call of the client gives its caller *)
Return(data) == [kind |-> "return", msg |-> <<>>, data |-> data]
Throw(msg) == [kind |-> "throw", msg |-> msg, data |-> <<>>]

(* A call either fails before any request (sent = FALSE) or issues one     *)
(* HTTP request and maps the vendor's answer.                              *)
Local(result) == [sent |-> FALSE, result |-> result]
Sent(result) == [sent |-> TRUE, result |-> result]

----------------------------------------------------------------------------
(* TavusService, src/src/services/tavusService.ts lines 1-303 ("therapy"), *)
(* src/unnamed/part_005 ("persona") and tavusService.ts lines 304-522      *)
(* ("replica").  resp is the vendor's answer to the request, read only     *)
(* when a request is sent.                                                 *)

isConfigured(r, k, p) ==
  CASE r = "therapy" ->
         /\ Truthy(k)
         /\ Truthy(p)
         /\ ~includes(k, your_tavus_api_key_here)
         /\ ~includes(k, your_actual_tavus_api_key_here)
         /\ ~includes(p, your_persona_id_here)
         /\ ~includes(p, your_actual_persona_id_here)
         /\ Len(k) > 10
         /\ Len(p) > 10
    [] r = "persona" ->
         /\ Truthy(k)
         /\ ~includes(k, your_tavus_api_key_here)
         /\ ~includes(k, your_actual_tavus_api_key_here)
    [] OTHER -> Truthy(k)

NotConfiguredError ==
  <<"Tavus service is not configured. Please check your API key and persona ID.">>
KeyNotConfiguredError == <<"Tavus API key is not configured.">>
KeyNotSetError ==
  <<"Tavus API key is not configured. Please set VITE_TAVUS_API_KEY in your environment variables.">>
PlaceholderKeyError ==
  <<"Please replace the placeholder API key in your .env file with your actual Tavus API key from https://tavusapi.com/dashboard">>
InvalidPersonaIdError ==
  <<"Please set a valid persona ID in your .env file. Get your persona ID from your Tavus dashboard.">>
InvalidKeyError ==
  <<"Invalid Tavus API key. Please check your VITE_TAVUS_API_KEY in the .env file.">>
ForbiddenError ==
  <<"Access forbidden. Please check your Tavus API key permissions.">>
PersonaNotFoundError ==
  <<"Persona not found. Please check your VITE_TAVUS_PERSONA_ID in the .env file.">>
ApiError(m) == <<"Tavus API error: ">> \o m
DefaultPersonaName == <<"AI Therapy Companion">>

(* tavusService.ts 72-121 *)
getPersonaDetailsCatch(e) ==
  IF e.status = 401 THEN Throw(InvalidKeyError)
  ELSE IF e.status = 403 THEN Throw(ForbiddenError)
  ELSE IF e.status = 404 THEN Throw(PersonaNotFoundError)
  ELSE IF Truthy(e.message) THEN Throw(ApiError(e.message))
  ELSE Return(DefaultPersonaName)

getPersonaDetails(k, p, resp) ==
  IF ~Truthy(k) \/ ~Truthy(p) \/ ~isConfigured("therapy", k, p)
  THEN Local(Return(<<>>))
  ELSE Sent(IF resp.status = 200
            THEN Return(IF Truthy(resp.name) THEN resp.name
                        ELSE DefaultPersonaName)
            ELSE getPersonaDetailsCatch(resp))

(* part_005 166-185 *)
getPersonas(k, resp) ==
  IF ~Truthy(k) THEN Local(Return(<<>>))
  ELSE Sent(IF resp.status = 200 THEN Return(<<"personas">>)
            ELSE Return(<<>>))

createTherapyConversationCatch_sniffsEveryStatus(e) ==
  LET errorMessage == IF Truthy(e.message) THEN e.message
                      ELSE IF Truthy(e.err) THEN e.err ELSE Bad_request
  IN IF e.status = 400 /\ includes(toLowerCase(errorMessage), w_persona)
     THEN <<"Invalid persona ID. Please check your VITE_TAVUS_PERSONA_ID in the .env file.">>
     ELSE IF e.status = 401 THEN InvalidKeyError
     ELSE IF e.status = 403 THEN ForbiddenError
     ELSE IF e.status = 404 THEN PersonaNotFoundError
     ELSE IF \/ includes(toLowerCase(errorMessage), w_quota)
             \/ includes(toLowerCase(errorMessage), w_limit)
     THEN <<"API quota exceeded. Please check your Tavus account limits.">>
     ELSE IF e.status = 429
     THEN <<"Rate limit exceeded. Please wait a moment and try again.">>
     ELSE IF e.code = "ECONNABORTED"
     THEN <<"Request timeout. Please check your internet connection and try again.">>
     ELSE ApiError(errorMessage)

(* tavusService.ts 165-194 *)
createTherapyConversationCatch(e) ==
  IF e.status = 400
  THEN LET errorMessage == IF Truthy(e.message) THEN e.message
                           ELSE IF Truthy(e.err) THEN e.err ELSE Bad_request
       IN IF includes(toLowerCase(errorMessage), w_persona)
          THEN <<"Invalid persona ID. Please check your VITE_TAVUS_PERSONA_ID in the .env file.">>
          ELSE IF \/ includes(toLowerCase(errorMessage), w_quota)
                  \/ includes(toLowerCase(errorMessage), w_limit)
          THEN <<"API quota exceeded. Please check your Tavus account limits.">>
          ELSE ApiError(errorMessage)
  ELSE IF e.status = 401 THEN InvalidKeyError
  ELSE IF e.status = 403 THEN ForbiddenError
  ELSE IF e.status = 404 THEN PersonaNotFoundError
  ELSE IF e.status = 429
  THEN <<"Rate limit exceeded. Please wait a moment and try again.">>
  ELSE IF e.code = "ECONNABORTED"
  THEN <<"Request timeout. Please check your internet connection and try again.">>
  ELSE IF Truthy(e.message) THEN ApiError(e.message)
  ELSE <<"Failed to create therapy session. Please check your internet connection and try again.">>

createTherapyConversationRejects_keyOnly(k, p) == ~Truthy(k)

(* tavusService.ts 124-127: TRUE when the call is rejected before the request *)
createTherapyConversationRejects(k, p) ==
  ~Truthy(k) \/ ~Truthy(p) \/ ~isConfigured("therapy", k, p)

(* tavusService.ts 124-195 *)
createTherapyConversation(k, p, resp) ==
  IF createTherapyConversationRejects(k, p)
  THEN Local(Throw(NotConfiguredError))
  ELSE Sent(IF resp.status = 200 THEN Return(<<"conversation">>)
            ELSE Throw(createTherapyConversationCatch(resp)))

(* part_005 101-132 *)
createConversationCatch(e) ==
  IF e.status = 400
  THEN LET errorMessage == IF Truthy(e.message) THEN e.message
                           ELSE IF Truthy(e.err) THEN e.err ELSE Bad_request
       IN IF \/ includes(toLowerCase(errorMessage), w_persona)
             \/ includes(toLowerCase(errorMessage), w_not_found)
          THEN <<"Invalid persona ID. Please check that your persona ID exists in your Tavus dashboard and update the VITE_TAVUS_PERSONA_ID environment variable.">>
          ELSE IF \/ includes(toLowerCase(errorMessage), w_api_key)
                  \/ includes(toLowerCase(errorMessage), w_authentication)
          THEN <<"Invalid API key. Please check your VITE_TAVUS_API_KEY in the .env file.">>
          ELSE IF \/ includes(toLowerCase(errorMessage), w_quota)
                  \/ includes(toLowerCase(errorMessage), w_limit)
          THEN <<"API quota exceeded. Please check your Tavus account limits.">>
          ELSE (<<"Tavus API error (400): ">> \o errorMessage)
                 \o <<". Please verify your API key and persona ID are correct.">>
  ELSE IF e.status = 401 THEN InvalidKeyError
  ELSE IF e.status = 403 THEN ForbiddenError
  ELSE IF e.status = 404
  THEN <<"Persona not found. Please verify the persona ID exists in your Tavus account.">>
  ELSE IF e.status = 429
  THEN <<"Rate limit exceeded. Please wait a moment and try again.">>
  ELSE IF e.code = "ECONNABORTED"
  THEN <<"Request timeout. Please check your internet connection and try again.">>
  ELSE IF Truthy(e.message) THEN ApiError(e.message)
  ELSE <<"Failed to create conversation. Please check your internet connection and try again.">>

(* part_005 59-70: the message the call is rejected with before the        *)
(* request, <<>> when it is not rejected                                   *)
createConversationRejects(k, persona_id) ==
  IF ~Truthy(k) THEN KeyNotSetError
  ELSE IF \/ includes(k, your_tavus_api_key_here)
          \/ includes(k, your_actual_tavus_api_key_here)
  THEN PlaceholderKeyError
  ELSE IF \/ ~Truthy(persona_id)
          \/ includes(persona_id, your_actual_persona_id_here)
          \/ persona_id = default_persona
  THEN InvalidPersonaIdError
  ELSE <<>>

(* part_005 58-133 *)
createConversation(k, persona_id, resp) ==
  IF Truthy(createConversationRejects(k, persona_id))
  THEN Local(Throw(createConversationRejects(k, persona_id)))
  ELSE Sent(IF resp.status = 200 THEN Return(<<"conversation">>)
            ELSE Throw(createConversationCatch(resp)))

(* tavusService.ts 370-397 *)
createConversationReplica(k, resp) ==
  IF ~Truthy(k) THEN Local(Throw(KeyNotSetError))
  ELSE Sent(IF resp.status = 200 THEN Return(<<"conversation">>)
            ELSE IF resp.status = 401 THEN Throw(InvalidKeyError)
            ELSE IF resp.status = 403 THEN Throw(ForbiddenError)
            ELSE IF resp.status = 404
            THEN Throw(<<"Tavus API endpoint not found. The API may have changed.">>)
            ELSE IF Truthy(resp.message) THEN Throw(ApiError(resp.message))
            ELSE Throw(<<"Failed to create conversation. Please check your internet connection and try again.">>))

(* tavusService.ts 214-227 *)
endConversationCatch(e) ==
  IF e.status = 401 THEN Throw(<<"Invalid Tavus API key.">>)
  ELSE IF e.status = 404 THEN Return(<<>>)
  ELSE IF Truthy(e.message) THEN Throw(ApiError(e.message))
  ELSE Return(<<>>)

endConversation_keyOnly(k, p, resp) ==
  IF ~Truthy(k) THEN Local(Throw(KeyNotConfiguredError))
  ELSE Sent(IF resp.status = 200 THEN Return(<<>>)
            ELSE endConversationCatch(resp))

(* tavusService.ts 198-228 *)
endConversation(k, p, resp) ==
  IF ~Truthy(k) \/ ~isConfigured("therapy", k, p)
  THEN Local(Throw(KeyNotConfiguredError))
  ELSE Sent(IF resp.status = 200 THEN Return(<<>>)
            ELSE endConversationCatch(resp))

(* part_005 150-162 *)
endConversationPersonaCatch(e) ==
  IF e.status = 401 THEN Throw(<<"Invalid Tavus API key.">>)
  ELSE IF e.status = 404 THEN Throw(<<"Conversation not found.">>)
  ELSE IF Truthy(e.message) THEN Throw(ApiError(e.message))
  ELSE Throw(<<"Failed to end conversation">>)

(* part_005 136-163 *)
endConversationPersona(k, resp) ==
  IF ~Truthy(k) THEN Local(Throw(KeyNotConfiguredError))
  ELSE Sent(IF resp.status = 200 THEN Return(<<>>)
            ELSE endConversationPersonaCatch(resp))

(* tavusService.ts 454-476 *)
endConversationReplica(k, resp) ==
  IF ~Truthy(k) THEN Local(Throw(KeyNotConfiguredError))
  ELSE Sent(IF resp.status = 200 THEN Return(<<>>)
            ELSE IF resp.status = 401 THEN Throw(<<"Invalid Tavus API key.">>)
            ELSE IF Truthy(resp.message) THEN Throw(ApiError(resp.message))
            ELSE Throw(<<"Failed to end conversation">>))

(* tavusService.ts 400-426: the reply is the vendor's message *)
sendMessageReplica(k, resp) ==
  IF ~Truthy(k) THEN Local(Throw(KeyNotConfiguredError))
  ELSE Sent(IF resp.status = 200 THEN Return(<<"message">>)
            ELSE IF resp.status = 401 THEN Throw(<<"Invalid Tavus API key.">>)
            ELSE IF Truthy(resp.message) THEN Throw(ApiError(resp.message))
            ELSE Throw(<<"Failed to send message">>))

(* The error axios rejects with, rethrown as it is *)
AxiosError == <<"AxiosError">>

getConversationStatusCatch_alwaysThrows(e) == Throw(AxiosError)

(* tavusService.ts 247-255 *)
getConversationStatusCatch(e) ==
  IF e.status = 404 THEN Return(<<>>) ELSE Throw(AxiosError)

(* tavusService.ts 231-256: <<>> is null *)
getConversationStatus(k, p, resp) ==
  IF ~Truthy(k) \/ ~isConfigured("therapy", k, p)
  THEN Local(Throw(KeyNotConfiguredError))
  ELSE Sent(IF resp.status = 200 THEN Return(<<"conversation">>)
            ELSE getConversationStatusCatch(resp))

(* part_005 223-231 *)
getConversationCatch(e) ==
  IF e.status = 404 THEN Return(<<>>) ELSE Throw(AxiosError)

(* part_005 209-232 *)
getConversation(k, resp) ==
  IF ~Truthy(k) THEN Local(Throw(KeyNotConfiguredError))
  ELSE Sent(IF resp.status = 200 THEN Return(<<"conversation">>)
            ELSE getConversationCatch(resp))

(* tavusService.ts 286-300: the request is the one of getPersonaDetails *)
testApiKey(k, p, resp) ==
  IF ~Truthy(k) \/ ~isConfigured("therapy", k, p)
  THEN Local(Return(<<"false">>))
  ELSE [sent |-> getPersonaDetails(k, p, resp).sent,
        result |-> IF getPersonaDetails(k, p, resp).result.kind = "return"
                   THEN Return(<<"true">>) ELSE Return(<<"false">>)]

----------------------------------------------------------------------------
(* Initial state.  A behaviour either calls the TavusService directly      *)
(* (phase "client", any configured credentials) or mounts one hook on it.  *)

NoConversation == 0
NoResponse == Response(0, <<>>, <<>>, "", <<>>)
NoCall ==
  [op |-> "none", arg |-> <<>>, sent |-> FALSE, resp |-> NoResponse,
   result |-> Return(<<>>)]

Revisions == {"therapy", "persona", "replica"}

NoAnswer == [op |-> "none", status |-> 0]

HookInit ==
  /\ persona = <<>>
  /\ conversation = NoConversation
  /\ conversationRef = NoConversation
  /\ messages = <<>>
  /\ isLoading = FALSE
  /\ isConnected = FALSE
  /\ error = <<>>
  /\ sessionStatus = "idle"
  /\ inflight = {}
  /\ vendorLive = {}
  /\ http = [create |-> 0, end |-> <<>>, persona |-> 0, message |-> 0]
  /\ notified = [sessionStart |-> 0, sessionEnd |-> 0, error |-> 0,
                 message |-> 0, lastError |-> <<>>, lastMessage |-> <<>>]
  /\ calls = [start |-> 0, send |-> 0, end |-> 0, load |-> 0, toggle |-> 0]
  /\ thrown = {}
  /\ answered = NoAnswer
  /\ stale = {}
  /\ isVideoEnabled = TRUE
  /\ isAudioEnabled = TRUE
  /\ effectDue = FALSE

InitClient ==
  /\ rev \in Revisions
  /\ apiKey \in ApiKeys
  /\ personaId \in PersonaIds
  /\ call = NoCall
  /\ phase = "client"
  /\ autoStart = FALSE
  /\ HookInit

----------------------------------------------------------------------------
(* Direct calls of the TavusService.  The service keeps no state between   *)
(* calls, so a behaviour of this phase makes one call.                     *)

Called(op, arg, resp, outcome) ==
  /\ call = NoCall
  /\ call' = [op |-> op, arg |-> arg, sent |-> outcome.sent,
              resp |-> IF outcome.sent THEN resp ELSE NoResponse,
              result |-> outcome.result]
  /\ UNCHANGED <<rev, apiKey, personaId, phase>>
  /\ UNCHANGED hookVars

Bool(b) == IF b THEN <<"true">> ELSE <<"false">>

CallIsConfigured ==
  /\ phase = "client"
  /\ Called("isConfigured", <<>>, NoResponse,
            Local(Return(Bool(isConfigured(rev, apiKey, personaId)))))

CallGetPersonaDetails(resp) ==
  /\ phase = "client" /\ rev = "therapy"
  /\ Called("getPersonaDetails", <<>>, resp,
            getPersonaDetails(apiKey, personaId, resp))

CallGetPersonas(resp) ==
  /\ phase = "client" /\ rev = "persona"
  /\ Called("getPersonas", <<>>, resp, getPersonas(apiKey, resp))

CallCreateTherapyConversation(resp) ==
  /\ phase = "client" /\ rev = "therapy"
  /\ Called("createTherapyConversation", personaId, resp,
            createTherapyConversation(apiKey, personaId, resp))

CallCreateConversation(persona_id, resp) ==
  /\ phase = "client" /\ rev = "persona"
  /\ Called("createConversation", persona_id, resp,
            createConversation(apiKey, persona_id, resp))

CallCreateConversationReplica(resp) ==
  /\ phase = "client" /\ rev = "replica"
  /\ Called("createConversation", <<"replica">>, resp,
            createConversationReplica(apiKey, resp))

CallEndConversation(resp) ==
  /\ phase = "client"
  /\ Called("endConversation", <<>>, resp,
            CASE rev = "therapy" -> endConversation(apiKey, personaId, resp)
              [] rev = "persona" -> endConversationPersona(apiKey, resp)
              [] OTHER -> endConversationReplica(apiKey, resp))

CallSendMessage(resp) ==
  /\ phase = "client" /\ rev = "replica"
  /\ Called("sendMessage", <<>>, resp, sendMessageReplica(apiKey, resp))

CallGetConversationStatus(resp) ==
  /\ phase = "client" /\ rev = "therapy"
  /\ Called("getConversationStatus", <<>>, resp,
            getConversationStatus(apiKey, personaId, resp))

CallGetConversation(resp) ==
  /\ phase = "client" /\ rev = "persona"
  /\ Called("getConversation", <<>>, resp, getConversation(apiKey, resp))

CallTestApiKey(resp) ==
  /\ phase = "client" /\ rev = "therapy"
  /\ Called("testApiKey", <<>>, resp, testApiKey(apiKey, personaId, resp))

NextClient ==
  \/ \E resp \in Responses : CallGetConversationStatus(resp)
  \/ \E resp \in Responses : CallGetConversation(resp)
  \/ \E resp \in Responses : CallTestApiKey(resp)
  \/ CallIsConfigured
  \/ \E resp \in Responses : CallGetPersonaDetails(resp)
  \/ \E resp \in Responses : CallGetPersonas(resp)
  \/ \E resp \in Responses : CallCreateTherapyConversation(resp)
  \/ \E persona_id \in PersonaIds, resp \in Responses :
        CallCreateConversation(persona_id, resp)
  \/ \E resp \in Responses : CallCreateConversationReplica(resp)
  \/ \E resp \in Responses : CallEndConversation(resp)
  \/ \E resp \in Responses : CallSendMessage(resp)

----------------------------------------------------------------------------
(* The hooks.  A hook function runs to its first await in one step; the    *)
(* request it awaits stays in inflight until the vendor answers, and the   *)
(* rest of the function (its try/catch/finally) runs in one step then.     *)
(* React commits the state a step sets before the next event is handled,   *)
(* so a function called from an event reads the state of the latest step,  *)
(* while the code after an await keeps the values its call captured.       *)

HookKeys == {Empty, GoodKey}
HookPersonaIds == {Empty, GoodPersona, your_actual_persona_id_here}

InitHook ==
  /\ rev \in Revisions
  /\ apiKey \in HookKeys
  /\ personaId \in IF rev = "replica" THEN {Empty} ELSE HookPersonaIds
  /\ call = NoCall
  /\ phase = "mounting"
  /\ autoStart \in IF rev = "therapy" THEN {FALSE} ELSE BOOLEAN
  /\ HookInit

(* Chat text and moods a user sends, and the answers the vendor gives *)
Hi == <<"h", "i">>
SoStressed == <<"S", "o", " ", "s", "t", "r", "e", "s", "s", "e", "d">>
SendInputs == {<<Hi, "sad">>, <<SoStressed, "">>}
HookPersonaResponses == {OkNamed, Status(401), NetworkError}
HookCreateResponses == {Ok, Status(401), StatusMessage(500, ServerBusy)}
HookEndResponses ==
  {Ok, Status(404), Status(401), StatusMessage(500, ServerBusy), NetworkError}
HookMessageResponses == {Ok, Status(401)}

(* A pending promise or timer: op is "persona", "create", "end", "message" *)
(* (requests) or "reply" (the setTimeout of sendMessage); n is the number  *)
(* of the call that made it; conv, content, mood and pers are the values   *)
(* the call captured.                                                      *)
Flight(op, n, conv, sent, content, mood, pers) ==
  [op |-> op, n |-> n, conv |-> conv, sent |-> sent, content |-> content,
   mood |-> mood, pers |-> pers]

(* A TherapyMessage / TavusMessage.  id is the prefix of the id the code   *)
(* builds ('initial-', 'user-', 'ai-' + Date.now()); send is the number of *)
(* the sendMessage call the message belongs to (0 for the greeting); type  *)
(* is the field type of TherapyMessage and speaker of TavusMessage.        *)
Message(id, send, type, content, mood, conv) ==
  [id |-> id, send |-> send, type |-> type, content |-> content,
   mood |-> mood, conversation_id |-> conv]

(* The vendor's answer to the request f; status 0 when f was refused      *)
(* before a request was sent or when no answer came                        *)
Answer(f, resp) == [op |-> f.op, status |-> IF f.sent THEN resp.status ELSE 0]

(* setMessages(prev => [...prev, m]) *)
appendMessage_prepends(prev, m) == <<m>> \o prev
appendMessage(prev, m) == Append(prev, m)

OnError(msg) ==
  [notified EXCEPT !.error = @ + 1, !.lastError = msg]
OnMessage(n, m) ==
  [n EXCEPT !.message = @ + 1, !.lastMessage = <<m>>]

Config == <<rev, apiKey, personaId, call, phase>>

(* The component may call a function of the mounted hook *)
MayCall ==
  /\ phase = "mounted"
  /\ calls.start + calls.send + calls.end + calls.load + calls.toggle < MaxCalls

----------------------------------------------------------------------------
(* useTherapySession, src/src/hooks/useTherapySession.ts *)

(* lines 34-60, up to the await; n numbers the call (0: the mount effect) *)
loadPersonaBody(n) ==
  IF ~isConfigured("therapy", apiKey, personaId)
  THEN /\ error' = NotConfiguredError
       /\ notified' = OnError(NotConfiguredError)
       /\ UNCHANGED <<isLoading, inflight, http>>
  ELSE /\ isLoading' = TRUE
       /\ error' = <<>>
       /\ LET sent == getPersonaDetails(apiKey, personaId, Ok).sent
          IN /\ http' = [http EXCEPT !.persona = @ + (IF sent THEN 1 ELSE 0)]
             /\ inflight' = inflight \cup
                  {Flight("persona", n, NoConversation, sent,
                          <<>>, "", <<>>)}
       /\ UNCHANGED notified

(* lines 250-255: the effect that runs after the first render *)
Therapy_mount ==
  /\ phase = "mounting" /\ rev = "therapy"
  /\ phase' = "mounted"
  /\ IF isConfigured("therapy", apiKey, personaId) /\ ~Truthy(persona)
     THEN loadPersonaBody(0)
     ELSE UNCHANGED <<isLoading, error, inflight, http, notified>>
  /\ UNCHANGED answered
  /\ UNCHANGED stale
  /\ UNCHANGED isVideoEnabled
  /\ UNCHANGED isAudioEnabled
  /\ UNCHANGED autoStart
  /\ UNCHANGED effectDue
  /\ UNCHANGED <<rev, apiKey, personaId, call, persona, conversation,
                 conversationRef, messages, isConnected, sessionStatus,
                 vendorLive, calls, thrown>>

(* lines 34-69: loadPersona called by the component *)
Therapy_loadPersona ==
  /\ MayCall /\ rev = "therapy"
  /\ calls' = [calls EXCEPT !.load = @ + 1]
  /\ loadPersonaBody(calls.load + 1)
  /\ UNCHANGED answered
  /\ UNCHANGED stale
  /\ UNCHANGED isVideoEnabled
  /\ UNCHANGED isAudioEnabled
  /\ UNCHANGED autoStart
  /\ UNCHANGED effectDue
  /\ UNCHANGED Config
  /\ UNCHANGED <<persona, conversation, conversationRef, messages,
                 isConnected, sessionStatus, vendorLive, thrown>>

(* lines 47-68: after the await *)
Therapy_loadPersonaSettled(f, resp) ==
  /\ rev = "therapy" /\ f \in inflight /\ f.op = "persona"
  /\ inflight' = inflight \ {f}
  /\ LET r == getPersonaDetails(apiKey, personaId, resp).result
     IN IF r.kind = "return"
        THEN /\ persona' = IF Truthy(r.data) THEN r.data ELSE DefaultPersonaName
             /\ UNCHANGED <<error, notified>>
        ELSE LET errorMsg == IF Truthy(r.msg) THEN r.msg
                             ELSE <<"Failed to load therapy persona">>
             IN /\ error' = errorMsg
                /\ notified' = OnError(errorMsg)
                /\ UNCHANGED persona
  /\ isLoading' = FALSE
  /\ answered' = Answer(f, resp)
  /\ UNCHANGED stale
  /\ UNCHANGED isVideoEnabled
  /\ UNCHANGED isAudioEnabled
  /\ UNCHANGED autoStart
  /\ UNCHANGED effectDue
  /\ UNCHANGED Config
  /\ UNCHANGED <<conversation, conversationRef, messages, isConnected,
                 sessionStatus, vendorLive, http, calls, thrown>>

initialMessage_ofUser(pers) ==
  Message("initial", 0, "user", <<"Hello, I'm your AI therapy companion">>,
          "", NoConversation)

(* lines 99-104 *)
initialMessage(pers) ==
  Message("initial", 0, "ai",
          <<"Hello, I'm your AI therapy companion">>
            \o (IF Truthy(pers) THEN <<" ">> \o pers ELSE <<>>)
            \o <<". I'm here to provide you with a safe, supportive space">>,
          "", NoConversation)

(* lines 72-87, up to the await *)
Therapy_startTherapySession ==
  /\ MayCall /\ rev = "therapy"
  /\ calls' = [calls EXCEPT !.start = @ + 1]
  /\ IF ~isConfigured("therapy", apiKey, personaId)
     THEN /\ error' = NotConfiguredError
          /\ notified' = OnError(NotConfiguredError)
          /\ UNCHANGED <<isLoading, sessionStatus, inflight, http>>
     ELSE /\ isLoading' = TRUE
          /\ sessionStatus' = "connecting"
          /\ error' = <<>>
          /\ LET sent == createTherapyConversation(apiKey, personaId, Ok).sent
             IN /\ http' = [http EXCEPT !.create = @ + (IF sent THEN 1 ELSE 0)]
                /\ inflight' = inflight \cup
                     {Flight("create", calls.start + 1, NoConversation, sent,
                             <<>>, "", persona)}
          /\ UNCHANGED notified
  /\ UNCHANGED answered
  /\ UNCHANGED stale
  /\ UNCHANGED isVideoEnabled
  /\ UNCHANGED isAudioEnabled
  /\ UNCHANGED autoStart
  /\ UNCHANGED effectDue
  /\ UNCHANGED Config
  /\ UNCHANGED <<persona, conversation, conversationRef, messages,
                 isConnected, vendorLive, thrown>>

(* lines 109-114: the catch block of startTherapySession *)
startTherapySessionCatch_keepsStatus(errorMsg) ==
  /\ error' = errorMsg
  /\ sessionStatus' = sessionStatus
  /\ notified' = OnError(errorMsg)

startTherapySessionCatch(errorMsg) ==
  /\ error' = errorMsg
  /\ sessionStatus' = "idle"
  /\ notified' = OnError(errorMsg)

(* lines 87-117: after the await.  The vendor names the conversation it    *)
(* creates; the model names it by the number of the start call.            *)
Therapy_startTherapySessionSettled(f, resp) ==
  /\ rev = "therapy" /\ f \in inflight /\ f.op = "create"
  /\ inflight' = inflight \ {f}
  /\ LET r == createTherapyConversation(apiKey, personaId, resp).result
     IN IF r.kind = "return"
        THEN /\ vendorLive' = vendorLive \cup {f.n}
             /\ conversation' = f.n
             /\ conversationRef' = f.n
             /\ isConnected' = TRUE
             /\ sessionStatus' = "active"
             /\ messages' = <<initialMessage(f.pers)>>
             /\ notified' = OnMessage([notified EXCEPT !.sessionStart = @ + 1],
                                      initialMessage(f.pers))
             /\ UNCHANGED error
        ELSE /\ startTherapySessionCatch(
                  IF Truthy(r.msg) THEN r.msg
                  ELSE <<"Failed to start therapy session">>)
             /\ UNCHANGED <<vendorLive, conversation, conversationRef,
                            isConnected, messages>>
  /\ isLoading' = FALSE
  /\ answered' = Answer(f, resp)
  /\ stale' = stale \ {f.n}
  /\ UNCHANGED isVideoEnabled
  /\ UNCHANGED isAudioEnabled
  /\ UNCHANGED autoStart
  /\ UNCHANGED effectDue
  /\ UNCHANGED Config
  /\ UNCHANGED <<persona, http, calls, thrown>>

(* lines 165-202.  Each text is cut after its first sentence.  The result  *)
(* is the set of texts the call may return: one text, or any of            *)
(* therapyResponses where the code draws Math.random().                    *)
therapyResponses ==
  <<"I hear what you're saying, and I want you to know that your feelings are completely valid.",
    "Thank you for trusting me with this.",
    "That sounds really challenging.",
    "I can sense the weight of what you're carrying.",
    "Your awareness of these patterns is actually a strength.",
    "I appreciate your openness.",
    "It's completely normal to feel overwhelmed sometimes.">>

w_anxious == <<"a", "n", "x", "i", "o", "u", "s">>
w_anxiety == <<"a", "n", "x", "i", "e", "t", "y">>
w_depressed == <<"d", "e", "p", "r", "e", "s", "s", "e", "d">>
w_depression == <<"d", "e", "p", "r", "e", "s", "s", "i", "o", "n">>
w_stress == <<"s", "t", "r", "e", "s", "s">>
w_stressed == <<"s", "t", "r", "e", "s", "s", "e", "d">>
w_relationship ==
  <<"r", "e", "l", "a", "t", "i", "o", "n", "s", "h", "i", "p">>
w_family == <<"f", "a", "m", "i", "l", "y">>

generateTherapyResponse(userMessage, mood) ==
  IF mood = "sad" THEN {<<"I can hear the sadness in what you're sharing.">>}
  ELSE IF mood = "anxious"
  THEN {<<"I notice you're feeling anxious, and that can be really uncomfortable.">>}
  ELSE IF mood = "happy"
  THEN {<<"It's wonderful to hear some positivity in your voice!">>}
  ELSE IF mood = "calm" THEN {<<"I'm glad you're feeling centered right now.">>}
  ELSE LET lowerMessage == toLowerCase(userMessage)
       IN IF includes(lowerMessage, w_anxious) \/ includes(lowerMessage, w_anxiety)
          THEN {<<"Anxiety can feel overwhelming, but you're taking a positive step by talking about it.">>}
          ELSE IF \/ includes(lowerMessage, w_depressed)
                  \/ includes(lowerMessage, w_depression)
          THEN {<<"Depression can make everything feel more difficult, and I want you to know that reaching out shows real strength.">>}
          ELSE IF includes(lowerMessage, w_stress) \/ includes(lowerMessage, w_stressed)
          THEN {<<"Stress affects all of us, and it sounds like you're dealing with quite a bit right now.">>}
          ELSE IF \/ includes(lowerMessage, w_relationship)
                  \/ includes(lowerMessage, w_family)
          THEN {<<"Relationships can be both our greatest source of joy and our biggest challenge.">>}
          ELSE {<<therapyResponses[i]>> : i \in 1..Len(therapyResponses)}

Therapy_sendMessage_unguarded(content, mood) ==
  /\ MayCall /\ rev = "therapy"
  /\ calls' = [calls EXCEPT !.send = @ + 1]
  /\ LET userMessage ==
           Message("user", calls.send + 1, "user", content, mood,
                   NoConversation)
     IN /\ isLoading' = TRUE
        /\ messages' = appendMessage(messages, userMessage)
        /\ notified' = OnMessage(notified, userMessage)
        /\ inflight' = inflight \cup
             {Flight("reply", calls.send + 1, NoConversation, FALSE, content,
                     mood, persona)}
  /\ UNCHANGED Config
  /\ UNCHANGED <<persona, conversation, conversationRef, isConnected, error,
                 sessionStatus, vendorLive, http, thrown, answered, stale,
                 isVideoEnabled, isAudioEnabled, autoStart, effectDue>>

(* lines 121-153, up to the end of the call *)
Therapy_sendMessage(content, mood) ==
  /\ MayCall /\ rev = "therapy"
  /\ calls' = [calls EXCEPT !.send = @ + 1]
  /\ IF conversation = NoConversation
     THEN /\ thrown' = thrown \cup {<<"sendMessage", <<"No active therapy session">>>>}
          /\ UNCHANGED <<isLoading, messages, notified, inflight>>
     ELSE LET userMessage ==
                Message("user", calls.send + 1, "user", content, mood,
                        NoConversation)
          IN /\ isLoading' = TRUE
             /\ messages' = appendMessage(messages, userMessage)
             /\ notified' = OnMessage(notified, userMessage)
             /\ inflight' = inflight \cup
                  {Flight("reply", calls.send + 1, NoConversation, FALSE,
                          content, mood, persona)}
             /\ UNCHANGED thrown
  /\ UNCHANGED answered
  /\ UNCHANGED stale
  /\ UNCHANGED isVideoEnabled
  /\ UNCHANGED isAudioEnabled
  /\ UNCHANGED autoStart
  /\ UNCHANGED effectDue
  /\ UNCHANGED Config
  /\ UNCHANGED <<persona, conversation, conversationRef, isConnected, error,
                 sessionStatus, vendorLive, http>>

(* lines 142-153: the setTimeout callback *)
Therapy_sendMessageTimer(f, text) ==
  /\ rev = "therapy" /\ f \in inflight /\ f.op = "reply"
  /\ text \in generateTherapyResponse(f.content, f.mood)
  /\ inflight' = inflight \ {f}
  /\ LET aiResponse ==
           Message("ai", f.n, "ai", text, "", NoConversation)
     IN /\ messages' = appendMessage(messages, aiResponse)
        /\ notified' = OnMessage(notified, aiResponse)
  /\ isLoading' = FALSE
  /\ UNCHANGED answered
  /\ UNCHANGED stale
  /\ UNCHANGED isVideoEnabled
  /\ UNCHANGED isAudioEnabled
  /\ UNCHANGED autoStart
  /\ UNCHANGED effectDue
  /\ UNCHANGED Config
  /\ UNCHANGED <<persona, conversation, conversationRef, isConnected, error,
                 sessionStatus, vendorLive, http, calls, thrown>>

(* lines 205-212, up to the await *)
Therapy_endTherapySession ==
  /\ MayCall /\ rev = "therapy"
  /\ calls' = [calls EXCEPT !.end = @ + 1]
  /\ IF conversation = NoConversation
     THEN UNCHANGED <<isLoading, sessionStatus, inflight, http>>
     ELSE /\ isLoading' = TRUE
          /\ sessionStatus' = "ended"
          /\ LET sent == endConversation(apiKey, personaId, Ok).sent
             IN /\ http' = [http EXCEPT
                              !.end = IF sent THEN Append(@, conversation) ELSE @]
                /\ inflight' = inflight \cup
                     {Flight("end", calls.end + 1, conversation, sent, <<>>,
                             "", <<>>)}
  /\ UNCHANGED answered
  /\ stale' = stale \cup {g.n : g \in {h \in inflight : h.op = "create"}}
  /\ UNCHANGED isVideoEnabled
  /\ UNCHANGED isAudioEnabled
  /\ UNCHANGED autoStart
  /\ UNCHANGED effectDue
  /\ UNCHANGED Config
  /\ UNCHANGED <<persona, conversation, conversationRef, messages,
                 isConnected, error, vendorLive, notified, thrown>>

(* The vendor ends the conversation when it answers 200, and does not hold *)
(* it when it answers 404.                                                 *)
VendorAfterEnd(f, resp) ==
  IF f.sent /\ resp.status \in {200, 404} THEN vendorLive \ {f.conv}
  ELSE vendorLive

Therapy_endTherapySessionSettled_keepsRef(f, resp) ==
  /\ rev = "therapy" /\ f \in inflight /\ f.op = "end"
  /\ inflight' = inflight \ {f}
  /\ vendorLive' = VendorAfterEnd(f, resp)
  /\ LET r == endConversation(apiKey, personaId, resp).result
     IN IF r.kind = "return"
        THEN /\ isConnected' = FALSE
             /\ conversation' = NoConversation
             /\ UNCHANGED conversationRef
             /\ messages' = <<>>
             /\ error' = <<>>
             /\ sessionStatus' = "idle"
             /\ notified' = [notified EXCEPT !.sessionEnd = @ + 1]
        ELSE /\ isConnected' = FALSE
             /\ conversation' = NoConversation
             /\ UNCHANGED conversationRef
             /\ messages' = <<>>
             /\ sessionStatus' = "idle"
             /\ notified' = [notified EXCEPT !.sessionEnd = @ + 1]
             /\ UNCHANGED error
  /\ isLoading' = FALSE
  /\ answered' = Answer(f, resp)
  /\ UNCHANGED stale
  /\ UNCHANGED isVideoEnabled
  /\ UNCHANGED isAudioEnabled
  /\ UNCHANGED autoStart
  /\ UNCHANGED effectDue
  /\ UNCHANGED Config
  /\ UNCHANGED <<persona, http, calls, thrown>>

(* lines 212-231: after the await *)
Therapy_endTherapySessionSettled(f, resp) ==
  /\ rev = "therapy" /\ f \in inflight /\ f.op = "end"
  /\ inflight' = inflight \ {f}
  /\ vendorLive' = VendorAfterEnd(f, resp)
  /\ LET r == endConversation(apiKey, personaId, resp).result
     IN IF r.kind = "return"
        THEN /\ isConnected' = FALSE
             /\ conversation' = NoConversation
             /\ conversationRef' = NoConversation
             /\ messages' = <<>>
             /\ error' = <<>>
             /\ sessionStatus' = "idle"
             /\ notified' = [notified EXCEPT !.sessionEnd = @ + 1]
        ELSE /\ isConnected' = FALSE
             /\ conversation' = NoConversation
             /\ conversationRef' = NoConversation
             /\ messages' = <<>>
             /\ sessionStatus' = "idle"
             /\ notified' = [notified EXCEPT !.sessionEnd = @ + 1]
             /\ UNCHANGED error
  /\ isLoading' = FALSE
  /\ answered' = Answer(f, resp)
  /\ UNCHANGED stale
  /\ UNCHANGED isVideoEnabled
  /\ UNCHANGED isAudioEnabled
  /\ UNCHANGED autoStart
  /\ UNCHANGED effectDue
  /\ UNCHANGED Config
  /\ UNCHANGED <<persona, http, calls, thrown>>

(* lines 257-264: the cleanup of the unmount effect.  It reads the ref,    *)
(* sends the end request and attaches .catch(console.error) to the promise *)
unmountCleanup(endCall) ==
  /\ phase = "mounted"
  /\ phase' = "unmounted"
  /\ IF conversationRef = NoConversation
     THEN UNCHANGED <<inflight, http>>
     ELSE /\ http' = [http EXCEPT
                       !.end = IF endCall.sent THEN Append(@, conversationRef)
                               ELSE @]
          /\ inflight' = inflight \cup
               {Flight("cleanup", 0, conversationRef, endCall.sent, <<>>, "",
                       <<>>)}
  /\ UNCHANGED <<rev, apiKey, personaId, call>>
  /\ UNCHANGED <<persona, conversation, conversationRef, messages, isLoading,
                 isConnected, error, sessionStatus, vendorLive, notified,
                 calls, thrown, answered, stale, isVideoEnabled,
                 isAudioEnabled, autoStart>>
  /\ effectDue' = FALSE

(* The promise of the cleanup settles: a rejection goes to console.error *)
unmountCleanupSettled(f, resp) ==
  /\ f \in inflight /\ f.op = "cleanup"
  /\ inflight' = inflight \ {f}
  /\ vendorLive' = VendorAfterEnd(f, resp)
  /\ answered' = Answer(f, resp)
  /\ UNCHANGED Config
  /\ UNCHANGED <<persona, conversation, conversationRef, messages, isLoading,
                 isConnected, error, sessionStatus, http, notified, calls,
                 thrown, stale, isVideoEnabled, isAudioEnabled, autoStart,
                 effectDue>>

Therapy_unmount_noCleanup ==
  /\ rev = "therapy"
  /\ phase = "mounted"
  /\ phase' = "unmounted"
  /\ UNCHANGED <<rev, apiKey, personaId, call>>
  /\ UNCHANGED hookVars

(* lines 257-264 *)
Therapy_unmount ==
  /\ rev = "therapy"
  /\ unmountCleanup(endConversation(apiKey, personaId, Ok))

Therapy_unmountSettled(f, resp) ==
  /\ rev = "therapy"
  /\ unmountCleanupSettled(f, resp)

(* What a toggle leaves alone: every state of the hook but the two flags *)
SessionState ==
  <<persona, conversation, conversationRef, messages, isLoading, isConnected,
    error, sessionStatus, inflight, vendorLive, http, notified, thrown,
    answered, stale>>

Therapy_toggleVideo_flipsBoth ==
  /\ MayCall /\ rev = "therapy"
  /\ calls' = [calls EXCEPT !.toggle = @ + 1]
  /\ isVideoEnabled' = ~isVideoEnabled
  /\ isAudioEnabled' = ~isAudioEnabled
  /\ UNCHANGED autoStart
  /\ UNCHANGED effectDue
  /\ UNCHANGED Config
  /\ UNCHANGED SessionState

(* lines 240-243 *)
Therapy_toggleVideo ==
  /\ MayCall /\ rev = "therapy"
  /\ calls' = [calls EXCEPT !.toggle = @ + 1]
  /\ isVideoEnabled' = ~isVideoEnabled
  /\ UNCHANGED isAudioEnabled
  /\ UNCHANGED autoStart
  /\ UNCHANGED effectDue
  /\ UNCHANGED Config
  /\ UNCHANGED SessionState

(* lines 245-248 *)
Therapy_toggleAudio ==
  /\ MayCall /\ rev = "therapy"
  /\ calls' = [calls EXCEPT !.toggle = @ + 1]
  /\ isAudioEnabled' = ~isAudioEnabled
  /\ UNCHANGED isVideoEnabled
  /\ UNCHANGED autoStart
  /\ UNCHANGED effectDue
  /\ UNCHANGED Config
  /\ UNCHANGED SessionState

NextTherapy ==
  \/ Therapy_mount
  \/ Therapy_unmount
  \/ \E f \in inflight, resp \in HookEndResponses :
        Therapy_unmountSettled(f, resp)
  \/ Therapy_toggleVideo
  \/ Therapy_toggleAudio
  \/ Therapy_loadPersona
  \/ \E f \in inflight, resp \in HookPersonaResponses :
        Therapy_loadPersonaSettled(f, resp)
  \/ Therapy_startTherapySession
  \/ \E f \in inflight, resp \in HookCreateResponses :
        Therapy_startTherapySessionSettled(f, resp)
  \/ \E input \in SendInputs : Therapy_sendMessage(input[1], input[2])
  \/ \E f \in inflight :
        \E text \in generateTherapyResponse(f.content, f.mood) :
           Therapy_sendMessageTimer(f, text)
  \/ Therapy_endTherapySession
  \/ \E f \in inflight, resp \in HookEndResponses :
        Therapy_endTherapySessionSettled(f, resp)

----------------------------------------------------------------------------
(* useTavusConversation, src/src/components/StatCard.tsx lines 26-251, on  *)
(* the TavusService of src/unnamed/part_005                                *)

(* line 47: the personaId option, VITE_TAVUS_PERSONA_ID || 'default-persona' *)
personaIdOption == IF Truthy(personaId) THEN personaId ELSE default_persona

KeyNotConfiguredHookError ==
  <<"Tavus service is not configured. Please check your API key.">>
PersonaIdHookError ==
  <<"Please set a valid persona ID in your .env file (VITE_TAVUS_PERSONA_ID).">>

(* lines 62-67: the message the hook refuses the persona id with, <<>> when *)
(* it accepts it                                                           *)
startConversationRejects(pid) ==
  IF ~Truthy(pid) \/ pid = default_persona THEN PersonaIdHookError ELSE <<>>

(* lines 95-101 and 305-311 *)
initialMessageTavus(conv) ==
  Message("initial", 0, "ai",
          <<"Hello! I'm your AI wellness companion.">>, "", conv)

(* lines 219-224 and 400-405: the dependencies of the auto-start effect   *)
(* are autoStart, conversation, isLoading and startConversation.  React    *)
(* runs the effect after the render that follows a step which changed one  *)
(* of them, before the hook handles anything else.                         *)
DepsChanged ==
  /\ autoStart
  /\ phase = "mounted"
  /\ conversation' # conversation \/ isLoading' # isLoading

(* The first render: every effect runs once *)
Tavus_mount ==
  /\ phase = "mounting" /\ rev \in {"persona", "replica"}
  /\ phase' = "mounted"
  /\ effectDue' = autoStart
  /\ UNCHANGED <<rev, apiKey, personaId, call>>
  /\ UNCHANGED <<SessionState, calls, isVideoEnabled, isAudioEnabled,
                 autoStart>>

(* lines 54-86, up to the await *)
Persona_startConversation ==
  /\ MayCall /\ rev = "persona"
  /\ calls' = [calls EXCEPT !.start = @ + 1]
  /\ IF ~isConfigured("persona", apiKey, personaId)
     THEN /\ error' = KeyNotConfiguredHookError
          /\ notified' = OnError(KeyNotConfiguredHookError)
          /\ UNCHANGED <<isLoading, inflight, http>>
     ELSE IF Truthy(startConversationRejects(personaIdOption))
     THEN /\ error' = startConversationRejects(personaIdOption)
          /\ notified' = OnError(startConversationRejects(personaIdOption))
          /\ UNCHANGED <<isLoading, inflight, http>>
     ELSE /\ isLoading' = TRUE
          /\ error' = <<>>
          /\ LET sent == createConversation(apiKey, personaIdOption, Ok).sent
             IN /\ http' = [http EXCEPT !.create = @ + (IF sent THEN 1 ELSE 0)]
                /\ inflight' = inflight \cup
                     {Flight("create", calls.start + 1, NoConversation, sent,
                             <<>>, "", <<>>)}
          /\ UNCHANGED notified
  /\ UNCHANGED answered
  /\ UNCHANGED stale
  /\ UNCHANGED isVideoEnabled
  /\ UNCHANGED isAudioEnabled
  /\ UNCHANGED autoStart
  /\ UNCHANGED Config
  /\ UNCHANGED <<persona, conversation, conversationRef, messages,
                 isConnected, sessionStatus, vendorLive, thrown>>
  /\ effectDue' = DepsChanged

(* lines 88-113: after the await *)
Persona_startConversationSettled(f, resp) ==
  /\ rev = "persona" /\ f \in inflight /\ f.op = "create"
  /\ inflight' = inflight \ {f}
  /\ LET r == createConversation(apiKey, personaIdOption, resp).result
     IN IF r.kind = "return"
        THEN /\ vendorLive' = vendorLive \cup {f.n}
             /\ conversation' = f.n
             /\ conversationRef' = f.n
             /\ isConnected' = TRUE
             /\ messages' = <<initialMessageTavus(f.n)>>
             /\ notified' = OnMessage(notified, initialMessageTavus(f.n))
             /\ UNCHANGED error
        ELSE /\ error' = r.msg
             /\ notified' = OnError(r.msg)
             /\ UNCHANGED <<vendorLive, conversation, conversationRef,
                            isConnected, messages>>
  /\ isLoading' = FALSE
  /\ answered' = Answer(f, resp)
  /\ stale' = stale \ {f.n}
  /\ UNCHANGED isVideoEnabled
  /\ UNCHANGED isAudioEnabled
  /\ UNCHANGED autoStart
  /\ UNCHANGED Config
  /\ UNCHANGED <<persona, sessionStatus, http, calls, thrown>>
  /\ effectDue' = DepsChanged

(* lines 163-185.  Each text is cut after its first sentence. *)
responses ==
  <<"I understand how you're feeling.",
    "Thank you for sharing that with me.",
    "I hear you, and I want you to know that you're not alone in this.",
    "That sounds challenging.",
    "I appreciate you trusting me with your thoughts.">>

generateAIResponse(userMessage, mood) ==
  IF mood = "sad" THEN {<<"I can sense that you're feeling sad right now.">>}
  ELSE IF mood = "anxious" THEN {<<"I notice you're feeling anxious.">>}
  ELSE IF mood = "happy"
  THEN {<<"It's wonderful to hear that you're feeling happy!">>}
  ELSE IF mood = "calm" THEN {<<"I'm glad you're feeling calm.">>}
  ELSE {<<responses[i]>> : i \in 1..Len(responses)}

(* lines 117-151, up to the end of the call *)
Persona_sendMessage(content, mood) ==
  /\ MayCall /\ rev = "persona"
  /\ calls' = [calls EXCEPT !.send = @ + 1]
  /\ IF conversation = NoConversation
     THEN /\ thrown' = thrown \cup {<<"sendMessage", <<"No active conversation">>>>}
          /\ UNCHANGED <<isLoading, messages, notified, inflight>>
     ELSE LET userMessage ==
                Message("user", calls.send + 1, "user", content, "",
                        conversation)
          IN /\ isLoading' = TRUE
             /\ messages' = appendMessage(messages, userMessage)
             /\ notified' = OnMessage(notified, userMessage)
             /\ inflight' = inflight \cup
                  {Flight("reply", calls.send + 1, conversation, FALSE,
                          content, mood, <<>>)}
             /\ UNCHANGED thrown
  /\ UNCHANGED answered
  /\ UNCHANGED stale
  /\ UNCHANGED isVideoEnabled
  /\ UNCHANGED isAudioEnabled
  /\ UNCHANGED autoStart
  /\ UNCHANGED Config
  /\ UNCHANGED <<persona, conversation, conversationRef, isConnected, error,
                 sessionStatus, vendorLive, http>>
  /\ effectDue' = DepsChanged

(* lines 139-151: the setTimeout callback *)
Persona_sendMessageTimer(f, text) ==
  /\ rev = "persona" /\ f \in inflight /\ f.op = "reply"
  /\ text \in generateAIResponse(f.content, f.mood)
  /\ inflight' = inflight \ {f}
  /\ LET aiResponse == Message("ai", f.n, "ai", text, "", f.conv)
     IN /\ messages' = appendMessage(messages, aiResponse)
        /\ notified' = OnMessage(notified, aiResponse)
  /\ isLoading' = FALSE
  /\ UNCHANGED answered
  /\ UNCHANGED stale
  /\ UNCHANGED isVideoEnabled
  /\ UNCHANGED isAudioEnabled
  /\ UNCHANGED autoStart
  /\ UNCHANGED Config
  /\ UNCHANGED <<persona, conversation, conversationRef, isConnected, error,
                 sessionStatus, vendorLive, http, calls, thrown>>
  /\ effectDue' = DepsChanged

(* lines 188-192, up to the await *)
Persona_endConversation ==
  /\ MayCall /\ rev = "persona"
  /\ calls' = [calls EXCEPT !.end = @ + 1]
  /\ IF conversation = NoConversation
     THEN UNCHANGED <<inflight, http>>
     ELSE LET sent == endConversationPersona(apiKey, Ok).sent
          IN /\ http' = [http EXCEPT
                           !.end = IF sent THEN Append(@, conversation) ELSE @]
             /\ inflight' = inflight \cup
                  {Flight("end", calls.end + 1, conversation, sent, <<>>, "",
                          <<>>)}
  /\ UNCHANGED answered
  /\ stale' = stale \cup {g.n : g \in {h \in inflight : h.op = "create"}}
  /\ UNCHANGED isVideoEnabled
  /\ UNCHANGED isAudioEnabled
  /\ UNCHANGED autoStart
  /\ UNCHANGED Config
  /\ UNCHANGED <<persona, conversation, conversationRef, messages, isLoading,
                 isConnected, error, sessionStatus, vendorLive, notified,
                 thrown>>
  /\ effectDue' = DepsChanged

(* lines 192-200: after the await *)
Persona_endConversationSettled(f, resp) ==
  /\ rev = "persona" /\ f \in inflight /\ f.op = "end"
  /\ inflight' = inflight \ {f}
  /\ vendorLive' = VendorAfterEnd(f, resp)
  /\ LET r == endConversationPersona(apiKey, resp).result
     IN IF r.kind = "return"
        THEN /\ isConnected' = FALSE
             /\ conversation' = NoConversation
             /\ conversationRef' = NoConversation
             /\ messages' = <<>>
             /\ error' = <<>>
        ELSE UNCHANGED <<isConnected, conversation, conversationRef,
                         messages, error>>
  /\ answered' = Answer(f, resp)
  /\ UNCHANGED stale
  /\ UNCHANGED isVideoEnabled
  /\ UNCHANGED isAudioEnabled
  /\ UNCHANGED autoStart
  /\ UNCHANGED Config
  /\ UNCHANGED <<persona, isLoading, sessionStatus, http, notified, calls,
                 thrown>>
  /\ effectDue' = DepsChanged

(* lines 226-233 and 407-414 *)
Tavus_unmount ==
  /\ rev \in {"persona", "replica"}
  /\ unmountCleanup(IF rev = "persona" THEN endConversationPersona(apiKey, Ok)
                    ELSE endConversationReplica(apiKey, Ok))

Tavus_unmountSettled(f, resp) ==
  /\ rev \in {"persona", "replica"}
  /\ unmountCleanupSettled(f, resp)

(* lines 210-212 and 391-393 *)
Tavus_toggleVideo ==
  /\ MayCall /\ rev \in {"persona", "replica"}
  /\ calls' = [calls EXCEPT !.toggle = @ + 1]
  /\ isVideoEnabled' = ~isVideoEnabled
  /\ UNCHANGED isAudioEnabled
  /\ UNCHANGED autoStart
  /\ UNCHANGED effectDue
  /\ UNCHANGED Config
  /\ UNCHANGED SessionState

(* lines 215-217 and 396-398 *)
Tavus_toggleAudio ==
  /\ MayCall /\ rev \in {"persona", "replica"}
  /\ calls' = [calls EXCEPT !.toggle = @ + 1]
  /\ isAudioEnabled' = ~isAudioEnabled
  /\ UNCHANGED isVideoEnabled
  /\ UNCHANGED autoStart
  /\ UNCHANGED effectDue
  /\ UNCHANGED Config
  /\ UNCHANGED SessionState

NextPersona ==
  \/ ~effectDue /\ Persona_startConversation
  \/ \E f \in inflight, resp \in HookCreateResponses :
        ~effectDue /\ Persona_startConversationSettled(f, resp)
  \/ \E input \in SendInputs :
        ~effectDue /\ Persona_sendMessage(input[1], input[2])
  \/ \E f \in inflight :
        \E text \in generateAIResponse(f.content, f.mood) :
           ~effectDue /\ Persona_sendMessageTimer(f, text)
  \/ ~effectDue /\ Persona_endConversation
  \/ \E f \in inflight, resp \in HookEndResponses :
        ~effectDue /\ Persona_endConversationSettled(f, resp)

----------------------------------------------------------------------------
(* useTavusConversation, src/src/components/StatCard.tsx lines 252-432, on *)
(* the TavusService of src/src/services/tavusService.ts lines 304-522      *)

(* lines 275-299, up to the await *)
Replica_startConversation ==
  /\ MayCall /\ rev = "replica"
  /\ calls' = [calls EXCEPT !.start = @ + 1]
  /\ IF ~isConfigured("replica", apiKey, personaId)
     THEN /\ error' = KeyNotConfiguredHookError
          /\ notified' = OnError(KeyNotConfiguredHookError)
          /\ UNCHANGED <<isLoading, inflight, http>>
     ELSE /\ isLoading' = TRUE
          /\ error' = <<>>
          /\ LET sent == createConversationReplica(apiKey, Ok).sent
             IN /\ http' = [http EXCEPT !.create = @ + (IF sent THEN 1 ELSE 0)]
                /\ inflight' = inflight \cup
                     {Flight("create", calls.start + 1, NoConversation, sent,
                             <<>>, "", <<>>)}
          /\ UNCHANGED notified
  /\ UNCHANGED answered
  /\ UNCHANGED stale
  /\ UNCHANGED isVideoEnabled
  /\ UNCHANGED isAudioEnabled
  /\ UNCHANGED autoStart
  /\ UNCHANGED Config
  /\ UNCHANGED <<persona, conversation, conversationRef, messages,
                 isConnected, sessionStatus, vendorLive, thrown>>
  /\ effectDue' = DepsChanged

(* lines 300-322: after the await *)
Replica_startConversationSettled(f, resp) ==
  /\ rev = "replica" /\ f \in inflight /\ f.op = "create"
  /\ inflight' = inflight \ {f}
  /\ LET r == createConversationReplica(apiKey, resp).result
     IN IF r.kind = "return"
        THEN /\ vendorLive' = vendorLive \cup {f.n}
             /\ conversation' = f.n
             /\ conversationRef' = f.n
             /\ isConnected' = TRUE
             /\ messages' = <<initialMessageTavus(f.n)>>
             /\ notified' = OnMessage(notified, initialMessageTavus(f.n))
             /\ UNCHANGED error
        ELSE /\ error' = r.msg
             /\ notified' = OnError(r.msg)
             /\ UNCHANGED <<vendorLive, conversation, conversationRef,
                            isConnected, messages>>
  /\ isLoading' = FALSE
  /\ answered' = Answer(f, resp)
  /\ stale' = stale \ {f.n}
  /\ UNCHANGED isVideoEnabled
  /\ UNCHANGED isAudioEnabled
  /\ UNCHANGED autoStart
  /\ UNCHANGED Config
  /\ UNCHANGED <<persona, sessionStatus, http, calls, thrown>>
  /\ effectDue' = DepsChanged

(* lines 326-354, up to the await *)
Replica_sendMessage(content, mood) ==
  /\ MayCall /\ rev = "replica"
  /\ calls' = [calls EXCEPT !.send = @ + 1]
  /\ IF conversation = NoConversation
     THEN /\ thrown' = thrown \cup {<<"sendMessage", <<"No active conversation">>>>}
          /\ UNCHANGED <<isLoading, messages, notified, inflight, http>>
     ELSE LET userMessage ==
                Message("user", calls.send + 1, "user", content, "",
                        conversation)
              sent == sendMessageReplica(apiKey, Ok).sent
          IN /\ isLoading' = TRUE
             /\ messages' = appendMessage(messages, userMessage)
             /\ notified' = OnMessage(notified, userMessage)
             /\ http' = [http EXCEPT !.message = @ + (IF sent THEN 1 ELSE 0)]
             /\ inflight' = inflight \cup
                  {Flight("message", calls.send + 1, conversation, sent,
                          content, mood, <<>>)}
             /\ UNCHANGED thrown
  /\ UNCHANGED answered
  /\ UNCHANGED stale
  /\ UNCHANGED isVideoEnabled
  /\ UNCHANGED isAudioEnabled
  /\ UNCHANGED autoStart
  /\ UNCHANGED Config
  /\ UNCHANGED <<persona, conversation, conversationRef, isConnected, error,
                 sessionStatus, vendorLive>>
  /\ effectDue' = DepsChanged

(* lines 360-364: the list of messages the catch block leaves; f is the   *)
(* request that failed                                                     *)
sendMessageCatch(msgs, f) == msgs

(* lines 347-367: after the await; the reply is the vendor's TavusMessage *)
Replica_sendMessageSettled(f, resp) ==
  /\ rev = "replica" /\ f \in inflight /\ f.op = "message"
  /\ inflight' = inflight \ {f}
  /\ LET r == sendMessageReplica(apiKey, resp).result
         aiResponse ==
           Message("vendor", f.n, "ai", <<"(the vendor's reply)">>, "", f.conv)
     IN IF r.kind = "return"
        THEN /\ messages' = appendMessage(messages, aiResponse)
             /\ notified' = OnMessage(notified, aiResponse)
             /\ UNCHANGED <<error, thrown>>
        ELSE /\ error' = r.msg
             /\ notified' = OnError(r.msg)
             /\ thrown' = thrown \cup {<<"sendMessage", r.msg>>}
             /\ messages' = sendMessageCatch(messages, f)
  /\ isLoading' = FALSE
  /\ answered' = Answer(f, resp)
  /\ UNCHANGED stale
  /\ UNCHANGED isVideoEnabled
  /\ UNCHANGED isAudioEnabled
  /\ UNCHANGED autoStart
  /\ UNCHANGED Config
  /\ UNCHANGED <<persona, conversation, conversationRef, isConnected,
                 sessionStatus, vendorLive, http, calls>>
  /\ effectDue' = DepsChanged

(* lines 371-375, up to the await *)
Replica_endConversation ==
  /\ MayCall /\ rev = "replica"
  /\ calls' = [calls EXCEPT !.end = @ + 1]
  /\ IF conversation = NoConversation
     THEN UNCHANGED <<inflight, http>>
     ELSE LET sent == endConversationReplica(apiKey, Ok).sent
          IN /\ http' = [http EXCEPT
                           !.end = IF sent THEN Append(@, conversation) ELSE @]
             /\ inflight' = inflight \cup
                  {Flight("end", calls.end + 1, conversation, sent, <<>>, "",
                          <<>>)}
  /\ UNCHANGED answered
  /\ stale' = stale \cup {g.n : g \in {h \in inflight : h.op = "create"}}
  /\ UNCHANGED isVideoEnabled
  /\ UNCHANGED isAudioEnabled
  /\ UNCHANGED autoStart
  /\ UNCHANGED Config
  /\ UNCHANGED <<persona, conversation, conversationRef, messages, isLoading,
                 isConnected, error, sessionStatus, vendorLive, notified,
                 thrown>>
  /\ effectDue' = DepsChanged

(* lines 375-381: after the await *)
Replica_endConversationSettled(f, resp) ==
  /\ rev = "replica" /\ f \in inflight /\ f.op = "end"
  /\ inflight' = inflight \ {f}
  /\ vendorLive' = VendorAfterEnd(f, resp)
  /\ LET r == endConversationReplica(apiKey, resp).result
     IN IF r.kind = "return"
        THEN /\ isConnected' = FALSE
             /\ conversation' = NoConversation
             /\ conversationRef' = NoConversation
        ELSE UNCHANGED <<isConnected, conversation, conversationRef>>
  /\ answered' = Answer(f, resp)
  /\ UNCHANGED stale
  /\ UNCHANGED isVideoEnabled
  /\ UNCHANGED isAudioEnabled
  /\ UNCHANGED autoStart
  /\ UNCHANGED Config
  /\ UNCHANGED <<persona, messages, isLoading, error, sessionStatus, http,
                 notified, calls, thrown>>
  /\ effectDue' = DepsChanged

NextReplica ==
  \/ ~effectDue /\ Replica_startConversation
  \/ \E f \in inflight, resp \in HookCreateResponses :
        ~effectDue /\ Replica_startConversationSettled(f, resp)
  \/ \E input \in SendInputs :
        ~effectDue /\ Replica_sendMessage(input[1], input[2])
  \/ \E f \in inflight, resp \in HookMessageResponses :
        ~effectDue /\ Replica_sendMessageSettled(f, resp)
  \/ ~effectDue /\ Replica_endConversation
  \/ \E f \in inflight, resp \in HookEndResponses :
        ~effectDue /\ Replica_endConversationSettled(f, resp)

----------------------------------------------------------------------------
(* lines 219-224 and 400-405: the auto-start effect.  The start it makes   *)
(* is a call of startConversation like any other.                          *)
Tavus_autoStartEffect ==
  /\ effectDue /\ phase = "mounted" /\ rev \in {"persona", "replica"}
  /\ IF autoStart /\ conversation = NoConversation /\ ~isLoading /\ MayCall
     THEN Persona_startConversation \/ Replica_startConversation
     ELSE /\ effectDue' = FALSE
          /\ UNCHANGED Config
          /\ UNCHANGED <<SessionState, calls, isVideoEnabled, isAudioEnabled,
                         autoStart>>

----------------------------------------------------------------------------
(* The whole: direct calls of the service, or one of the three hooks *)

Init == InitClient \/ InitHook

Next ==
  \/ NextClient
  \/ NextTherapy
  \/ Tavus_mount
  \/ Tavus_autoStartEffect
  \/ ~effectDue /\ Tavus_unmount
  \/ \E f \in inflight, resp \in HookEndResponses :
        Tavus_unmountSettled(f, resp)
  \/ ~effectDue /\ Tavus_toggleVideo
  \/ ~effectDue /\ Tavus_toggleAudio
  \/ NextPersona
  \/ NextReplica

Spec == Init /\ [][Next]_vars

(* The promises and timers of useTherapySession that settle: every vendor *)
(* call resolves or rejects, every setTimeout fires.                       *)
TherapySettles ==
  \/ \E f \in inflight, resp \in HookPersonaResponses :
        Therapy_loadPersonaSettled(f, resp)
  \/ \E f \in inflight, resp \in HookCreateResponses :
        Therapy_startTherapySessionSettled(f, resp)
  \/ \E f \in inflight :
        \E text \in generateTherapyResponse(f.content, f.mood) :
           Therapy_sendMessageTimer(f, text)
  \/ \E f \in inflight, resp \in HookEndResponses :
        Therapy_endTherapySessionSettled(f, resp)
  \/ \E f \in inflight, resp \in HookEndResponses :
        Therapy_unmountSettled(f, resp)

(* useTherapySession alone, with every pending promise and timer settling *)
InitTherapy == InitHook /\ rev = "therapy"

LiveSpec == InitTherapy /\ [][NextTherapy]_vars /\ WF_vars(TherapySettles)

----------------------------------------------------------------------------
(* Steps of the hooks that the properties below talk about *)

(* The component calls the start / end function of the hook *)
StartCalled == calls'.start = calls.start + 1
EndCalled == calls'.end = calls.end + 1
SendCalled == calls'.send = calls.send + 1

(* The promise or timer f is settled by the step *)
Settles(f) == f \in inflight /\ f \notin inflight'

(* A session is being set up or is up *)
CreatePending == \E f \in inflight : f.op = "create"
SessionBusy == CreatePending \/ conversation # NoConversation

----------------------------------------------------------------------------
(* C1: a start issued while the session is connecting or active is a       *)
(* no-op: it sends no second create request, and the conversation that is  *)
(* held is never replaced by another one.                                  *)
C1_StartWhileBusyIsNoOp ==
  [][/\ (StartCalled /\ SessionBusy) =>
           (http'.create = http.create /\ inflight' = inflight)
     /\ conversation # NoConversation =>
           conversation' \in {conversation, NoConversation}]_vars

(* C2: when end() has completed, messages is empty and conversation is     *)
(* null, whether the vendor's end request succeeded or failed.             *)
C2_EndClearsSession ==
  [][(\E f \in inflight : f.op = "end" /\ Settles(f)) =>
        (Len(messages') = 0 /\ conversation' = NoConversation)]_vars

(* C3: an end() called while an earlier end() of the same conversation is  *)
(* still pending does nothing: no second vendor request is sent, and       *)
(* onSessionEnd fires once for the conversation.                           *)
C3_SecondEndIsNoOp ==
  [][/\ (/\ rev = "therapy"
         /\ EndCalled
         /\ \E f \in inflight : f.op = "end" /\ f.conv = conversation)
           => (http'.end = http.end /\ inflight' = inflight)
     /\ rev = "therapy" => notified'.sessionEnd <= notified'.sessionStart
    ]_vars

(* C4: sendMessage appends the user's message, and reports it to           *)
(* onMessage, in the step of the call, before the reply timer or the       *)
(* vendor's answer can act; in messages the user's message of a send is    *)
(* never behind the reply to that send.                                    *)
C4_UserMessageFirst ==
  /\ [][(SendCalled /\ conversation # NoConversation) =>
          /\ Len(messages') = Len(messages) + 1
          /\ \A i \in 1..Len(messages) : messages'[i] = messages[i]
          /\ messages'[Len(messages')].type = "user"
          /\ messages'[Len(messages')].send = calls'.send
          /\ notified'.message = notified.message + 1
          /\ notified'.lastMessage = <<messages'[Len(messages')]>>
          /\ \E f \in inflight' \ inflight :
                f.op \in {"reply", "message"} /\ f.n = calls'.send]_vars
  /\ [](\A i \in 1..Len(messages), j \in 1..Len(messages) :
          (/\ messages[i].type = "ai"
           /\ messages[j].type = "user"
           /\ messages[i].send = messages[j].send) => j < i)

C4_Witness ==
  \E i \in 1..Len(messages), j \in 1..Len(messages) :
     /\ messages[j].type = "user"
     /\ messages[i].type = "ai"
     /\ messages[i].send = messages[j].send
     /\ j < i

(* C5: when the create request of useTherapySession succeeds,              *)
(* sessionStatus becomes 'active', the conversation is stored, isConnected *)
(* is true, onSessionStart fires once, and messages is exactly the one     *)
(* greeting of the agent.                                                  *)
C5_StartSuccess ==
  [][\A f \in inflight :
       (/\ rev = "therapy"
        /\ f.op = "create"
        /\ Settles(f)
        /\ f.n \in vendorLive' \ vendorLive) =>
          /\ sessionStatus' = "active"
          /\ conversation' = f.n
          /\ conversationRef' = f.n
          /\ isConnected'
          /\ notified'.sessionStart = notified.sessionStart + 1
          /\ Len(messages') = 1
          /\ messages'[1].type = "ai"
          /\ messages'[1].id = "initial"]_vars

C5_Witness ==
  /\ rev = "therapy"
  /\ calls.start = 1
  /\ sessionStatus = "active"
  /\ conversation = 1
  /\ isConnected
  /\ notified.sessionStart = 1
  /\ Len(messages) = 1
  /\ messages[1].type = "ai"

C7_EndNotFoundIsSuccess ==
  /\ []((/\ rev \in {"therapy", "persona"}
          /\ call.op = "endConversation"
          /\ call.sent
          /\ call.resp.status = 404) => call.result.kind = "return")
  /\ [][(/\ rev \in {"therapy", "persona"}
          /\ \E f \in inflight : f.op = "end" /\ Settles(f)
          /\ answered'.status = 404) => error' = <<>>]_vars

(* C8: isConfigured is false when the API key or the persona id is empty,  *)
(* only whitespace, or holds one of the placeholder sentinels, and true    *)
(* only for a plausible pair.                                              *)
C8_IsConfiguredRejectsBlankAndSentinels ==
  (/\ rev \in {"therapy", "persona"}
   /\ call.op = "isConfigured"
   /\ \/ IsBlank(apiKey)
      \/ IsBlank(personaId)
      \/ \E x \in Sentinels : includes(apiKey, x) \/ includes(personaId, x))
     => call.result.data = Bool(FALSE)

(* The messages a create call is refused with before any request *)
LocalRejections ==
  {NotConfiguredError, KeyNotConfiguredError, KeyNotSetError, PlaceholderKeyError,
   InvalidPersonaIdError, KeyNotConfiguredHookError, PersonaIdHookError}

(* C9: a create call with an empty persona id is refused with a            *)
(* configuration error and no request is sent: by createTherapyConversation*)
(* and createConversation of the service, and by the start function of     *)
(* the hooks that take a persona id.                                       *)
C9_EmptyPersonaIdSendsNothing ==
  /\ (/\ rev \in {"therapy", "persona"}
      /\ call.op \in {"createTherapyConversation", "createConversation"}
      /\ call.arg = Empty)
        => /\ ~call.sent
           /\ call.result.kind = "throw"
           /\ call.result.msg \in LocalRejections
  /\ (/\ rev \in {"therapy", "persona"}
      /\ phase = "mounted"
      /\ personaId = Empty)
        => /\ http.create = 0
           /\ ~CreatePending
           /\ conversation = NoConversation
           /\ calls.start > 0 => error \in LocalRejections

C9_Witness ==
  /\ rev = "therapy"
  /\ call.op = "createTherapyConversation"
  /\ apiKey = GoodKey
  /\ call.arg = Empty
  /\ ~call.sent
  /\ call.result = Throw(NotConfiguredError)

(* C10: when the vendor answers the persona request with 401, the persona  *)
(* fetch of the service raises the invalid-credentials error, and          *)
(* loadPersona stores that message in error.                               *)
C10_PersonaFetchUnauthorized ==
  /\ []((/\ call.op \in {"getPersonaDetails", "getPersonas"}
          /\ call.sent
          /\ call.resp.status = 401) => call.result = Throw(InvalidKeyError))
  /\ [][(/\ rev = "therapy"
          /\ \E f \in inflight : f.op = "persona" /\ Settles(f)
          /\ answered'.status = 401)
            => (error' = InvalidKeyError /\ notified'.lastError = InvalidKeyError)
       ]_vars

(* C11: a create response that arrives after the user called end during    *)
(* the request, or after sessionStatus left 'connecting', is ignored: the  *)
(* hook does not become active, stores no conversation and adds no         *)
(* greeting.                                                               *)
C11_LateCreateIgnored ==
  [][\A f \in inflight :
       (/\ rev = "therapy"
        /\ f.op = "create"
        /\ Settles(f)
        /\ (f.n \in stale \/ sessionStatus # "connecting")) =>
          /\ sessionStatus' # "active"
          /\ conversation' = conversation
          /\ messages' = messages
          /\ notified'.sessionStart = notified.sessionStart]_vars

(* C12: a reply that resolves when the hook no longer holds a conversation *)
(* is discarded: it is not appended to messages and not handed to          *)
(* onMessage.                                                              *)
C12_ReplyAfterEndDiscarded ==
  [][\A f \in inflight :
       (/\ rev \in {"therapy", "replica"}
        /\ f.op \in {"reply", "message"}
        /\ Settles(f)
        /\ conversation = NoConversation) =>
          /\ messages' = messages
          /\ notified'.message = notified.message]_vars

(* The hook has sent no request *)
NoRequest ==
  /\ http.create = 0
  /\ http.end = <<>>
  /\ http.persona = 0
  /\ http.message = 0
  /\ \A f \in inflight : ~f.sent

(* C13: while isConfigured() is false no operation of the TavusService     *)
(* (getPersonaDetails, createTherapyConversation, endConversation,         *)
(* getConversationStatus, testApiKey) and no operation of useTherapySession*)
(* sends a request; the call fails or answers softly on the spot.          *)
C13_UnconfiguredSendsNothing ==
  (rev = "therapy" /\ ~isConfigured("therapy", apiKey, personaId)) =>
     /\ ~call.sent
     /\ call.op \in {"createTherapyConversation", "endConversation",
                     "getConversationStatus"}
          => (call.result.kind = "throw"
              /\ call.result.msg \in {NotConfiguredError, KeyNotConfiguredError})
     /\ call.op = "getPersonaDetails" => call.result = Return(<<>>)
     /\ call.op = "testApiKey" => call.result = Return(<<"false">>)
     /\ NoRequest
     /\ conversation = NoConversation
     /\ (calls.start > 0 \/ calls.load > 0) => error = NotConfiguredError

C13_Witness ==
  /\ rev = "therapy"
  /\ apiKey = ShortKey
  /\ personaId = GoodPersona
  /\ call.op = "endConversation"
  /\ ~call.sent
  /\ call.result = Throw(KeyNotConfiguredError)

(* C16: getConversationStatus (getConversation in part_005) returns null   *)
(* without raising when the vendor answers 404, returns the vendor's       *)
(* conversation on success, and raises on every other failure.             *)
C16_StatusNotFoundIsNull ==
  (call.op \in {"getConversationStatus", "getConversation"} /\ call.sent) =>
     /\ call.resp.status = 404 => call.result = Return(<<>>)
     /\ call.resp.status = 200 => call.result = Return(<<"conversation">>)
     /\ call.resp.status \notin {200, 404} =>
          (call.result.kind = "throw" /\ call.result.msg = AxiosError)

C16_Witness ==
  /\ call.op = "getConversationStatus"
  /\ call.sent
  /\ call.resp.status = 404
  /\ call.result = Return(<<>>)

(* The error taxonomy: the kind of error a message of the client stands for *)
Taxonomy(msg) ==
  IF msg \in {InvalidKeyError, ForbiddenError,
              <<"Invalid API key. Please check your VITE_TAVUS_API_KEY in the .env file.">>}
  THEN "InvalidCredentials"
  ELSE IF msg \in
       {PersonaNotFoundError,
        <<"Persona not found. Please verify the persona ID exists in your Tavus account.">>,
        <<"Invalid persona ID. Please check your VITE_TAVUS_PERSONA_ID in the .env file.">>,
        <<"Invalid persona ID. Please check that your persona ID exists in your Tavus dashboard and update the VITE_TAVUS_PERSONA_ID environment variable.">>}
  THEN "PersonaNotFound"
  ELSE IF msg = <<"API quota exceeded. Please check your Tavus account limits.">>
  THEN "QuotaExceeded"
  ELSE IF msg = <<"Rate limit exceeded. Please wait a moment and try again.">>
  THEN "RateLimited"
  ELSE IF msg = <<"Request timeout. Please check your internet connection and try again.">>
  THEN "Timeout"
  ELSE "VendorError"

(* The vendor's message of a failed request, lower-cased: data.message, or *)
(* data.error, or none                                                     *)
VendorMessage(e) ==
  IF Truthy(e.message) THEN e.message ELSE IF Truthy(e.err) THEN e.err ELSE <<>>

(* A create call of the service that sent its request and failed *)
CreateFailed ==
  /\ rev \in {"therapy", "persona"}
  /\ call.op \in {"createTherapyConversation", "createConversation"}
  /\ call.sent
  /\ call.resp.status # 200

C15_EndIsBestEffort ==
  (/\ rev \in {"therapy", "replica"}
   /\ call.op = "endConversation"
   /\ call.sent) => call.result.kind = "return"

(* C17: a step that changes isVideoEnabled changes nothing else, and a     *)
(* step that changes isAudioEnabled changes nothing else: a toggle flips   *)
(* its own flag only and no operation of the session touches a flag.  In   *)
(* every state in which the component may call the hook, whatever          *)
(* sessionStatus is, each toggle can be taken and flips its flag.          *)
C17_TogglesAreIndependent ==
  /\ [](rev = "therapy" /\ MayCall =>
          /\ ENABLED (Therapy_toggleVideo /\ isVideoEnabled' = ~isVideoEnabled)
          /\ ENABLED (Therapy_toggleAudio /\ isAudioEnabled' = ~isAudioEnabled))
  /\ [][rev = "therapy" =>
          /\ isVideoEnabled' # isVideoEnabled =>
               UNCHANGED <<SessionState, Config, isAudioEnabled>>
          /\ isAudioEnabled' # isAudioEnabled =>
               UNCHANGED <<SessionState, Config, isVideoEnabled>>
          /\ calls'.toggle = calls.toggle + 1 =>
               /\ UNCHANGED <<SessionState, Config>>
               /\ (isVideoEnabled' = isVideoEnabled)
                     # (isAudioEnabled' = isAudioEnabled)]_vars

C17_Witness ==
  /\ rev = "therapy"
  /\ sessionStatus = "active"
  /\ ~isVideoEnabled
  /\ isAudioEnabled
  /\ Len(messages) > 1

(* The flights of the unmount cleanup *)
Cleanups(S) == {f \in S : f.op = "cleanup"}

(* C18: when the hook is torn down, the end request is sent exactly once,  *)
(* for the conversation held, if and only if one is held; whatever the     *)
(* vendor answers to it, nothing is thrown and nothing is reported.  After *)
(* the teardown no further end request is sent.                            *)
C18_TeardownEndsHeldConversation ==
  [][rev = "therapy" =>
       /\ (phase = "mounted" /\ phase' = "unmounted") =>
            /\ conversation # NoConversation =>
                 /\ http'.end = Append(http.end, conversation)
                 /\ Cleanups(inflight') =
                      {Flight("cleanup", 0, conversation, TRUE, <<>>, "", <<>>)}
            /\ conversation = NoConversation =>
                 /\ http'.end = http.end
                 /\ Cleanups(inflight') = {}
            /\ thrown' = thrown
       /\ phase = "unmounted" =>
            /\ http'.end = http.end
            /\ Cleanups(inflight') \subseteq Cleanups(inflight)
       /\ (\E f \in Cleanups(inflight) : Settles(f)) =>
            /\ thrown' = thrown
            /\ error' = error
            /\ notified' = notified]_vars

C18_Witness ==
  /\ rev = "therapy"
  /\ phase = "unmounted"
  /\ http.end = <<1>>
  /\ answered = [op |-> "cleanup", status |-> 401]
  /\ thrown = {}

IsPrefix(s, t) == Len(s) <= Len(t) /\ SubSeq(t, 1, Len(s)) = s

(* C19: while the hook holds the same Conversation, every step leaves the  *)
(* messages it had as a prefix of the messages it has: messages are only   *)
(* appended.  The list is emptied only by the step that ends the           *)
(* conversation, and replaced only by the step that starts another one.    *)
C19_MessagesAppendOnly ==
  [][rev = "therapy" =>
       /\ (conversation # NoConversation /\ conversation' = conversation) =>
            IsPrefix(messages, messages')
       /\ ~IsPrefix(messages, messages') =>
            \/ conversation' = NoConversation /\ messages' = <<>>
            \/ /\ conversation' # NoConversation
               /\ conversation' # conversation
               /\ Len(messages') = 1
               /\ messages'[1].id = "initial"]_vars

C19_Witness ==
  /\ rev = "therapy"
  /\ conversation # NoConversation
  /\ Len(messages) = 3
  /\ messages[1].id = "initial"
  /\ messages[2].id = "user"
  /\ messages[3].id = "ai"

(* C20: when the request of a send fails, the failure is stored in error  *)
(* and passed to onError, and the user Message of that send is in the      *)
(* list of messages.                                                       *)
C20_FailedSendKeepsUserMessage ==
  [][rev = "replica" =>
       \A f \in inflight :
          (f.op = "message" /\ Settles(f) /\ answered'.status # 200) =>
             /\ error' # <<>>
             /\ notified'.error = notified.error + 1
             /\ notified'.lastError = error'
             /\ \E i \in 1..Len(messages') :
                   messages'[i].id = "user" /\ messages'[i].send = f.n]_vars

(* The catch block itself rolls nothing back: the step of the failure      *)
(* leaves the list as it is, and the step of the send appended the user    *)
(* Message to it.                                                          *)
NoRollback ==
  [][rev = "replica" =>
       /\ (SendCalled /\ conversation # NoConversation) =>
            /\ Len(messages') = Len(messages) + 1
            /\ IsPrefix(messages, messages')
            /\ messages'[Len(messages')].id = "user"
            /\ messages'[Len(messages')].send = calls'.send
       /\ \A f \in inflight :
            (f.op = "message" /\ Settles(f) /\ answered'.status # 200) =>
               messages' = messages]_vars

(* C21: no function of the hook throws to its caller: start, sendMessage   *)
(* and end store the error in the error state and return.                  *)
C21_NothingThrownToCaller ==
  rev = "therapy" => thrown = {}

(* C22: sessionStatus changes only along the edges idle -> connecting,     *)
(* connecting -> active, connecting -> idle, active -> ended and           *)
(* ended -> idle.                                                          *)
C22_StatusFollowsStateMachine ==
  [][(rev = "therapy" /\ sessionStatus' # sessionStatus) =>
       <<sessionStatus, sessionStatus'>> \in
          {<<"idle", "connecting">>, <<"connecting", "active">>,
           <<"connecting", "idle">>, <<"active", "ended">>,
           <<"ended", "idle">>}]_vars

(* C23: when every vendor call resolves or rejects and every timer fires,  *)
(* the hook is never stuck: a session that is connecting leaves            *)
(* 'connecting', one that is ended leaves 'ended', and isLoading returns   *)
(* to false.                                                               *)
C23_NeverStuck ==
  /\ (sessionStatus = "connecting") ~> (sessionStatus # "connecting")
  /\ (sessionStatus = "ended") ~> (sessionStatus # "ended")
  /\ isLoading ~> ~isLoading

C23_Witness ==
  /\ rev = "therapy"
  /\ calls.start = 1
  /\ calls.end = 1
  /\ answered = [op |-> "end", status |-> 500]
  /\ sessionStatus = "idle"
  /\ ~isLoading
  /\ inflight = {}

(* The replies of the agent in a list of messages (the greeting is not one) *)
Replies(msgs) == SelectSeq(msgs, LAMBDA m : m.type = "ai" /\ m.id # "initial")

(* C24: a reply is appended only by the step in which the pending reply of *)
(* a send that was made resolves, at the end of the list, so replies stand *)
(* in the order they resolve; the user's message of a send never stands    *)
(* behind the reply to it; a send has at most one user message and at most *)
(* one reply in the list.                                                  *)
C24_RepliesInResolutionOrder ==
  /\ [][(rev \in {"therapy", "replica"} /\ Replies(messages') # Replies(messages)
         /\ Replies(messages') # <<>>) =>
          \E f \in inflight :
             /\ f.op \in {"reply", "message"}
             /\ Settles(f)
             /\ f.n <= calls.send
             /\ Len(messages') = Len(messages) + 1
             /\ IsPrefix(messages, messages')
             /\ messages'[Len(messages')].type = "ai"
             /\ messages'[Len(messages')].send = f.n]_vars
  /\ [](rev \in {"therapy", "replica"} =>
          \A i \in 1..Len(messages), j \in 1..Len(messages) :
             (messages[i].send = messages[j].send /\ messages[i].send # 0) =>
                /\ (messages[i].type = messages[j].type) => i = j
                /\ (messages[i].type = "user" /\ messages[j].type = "ai") => i < j)

C24_Witness ==
  /\ rev = "therapy"
  /\ Len(messages) = 5
  /\ messages[2].type = "user" /\ messages[2].send = 1
  /\ messages[3].type = "user" /\ messages[3].send = 2
  /\ messages[4].type = "ai" /\ messages[4].send = 2
  /\ messages[5].type = "ai" /\ messages[5].send = 1

(* The conversations an end request was sent for *)
EndRequested == {http.end[i] : i \in 1..Len(http.end)}

(* C25: no conversation is orphaned.  Once the hook is unmounted and       *)
(* nothing is pending any more, nothing further can happen: by then an end *)
(* request was sent for every conversation the vendor still holds.         *)
C25_NoOrphanConversation ==
  (rev = "therapy" /\ phase = "unmounted" /\ inflight = {}) =>
     vendorLive \subseteq EndRequested

(* C26: in every state of useTherapySession a conversation is held exactly *)
(* when isConnected is true, and conversationRef.current is the            *)
(* conversation held.                                                      *)
C26_SessionFlagsAgree ==
  rev = "therapy" =>
     /\ (conversation # NoConversation) <=> isConnected
     /\ conversationRef = conversation

C26_Witness ==
  /\ rev = "therapy"
  /\ calls.start = 2
  /\ calls.end = 1
  /\ notified.sessionEnd = 1
  /\ conversation = 2
  /\ conversationRef = 2
  /\ isConnected

(* C27: in every state of useTherapySession, sessionStatus 'idle' or       *)
(* 'connecting' implies that no conversation is held and that messages is  *)
(* empty, and 'active' implies that a conversation is held.                *)
C27_StatusAgreesWithConversation ==
  rev = "therapy" =>
     /\ sessionStatus \in {"idle", "connecting"} =>
          (conversation = NoConversation /\ messages = <<>>)
     /\ sessionStatus = "active" => conversation # NoConversation

(* C28: isLoading is true whenever a start request, an end request or a    *)
(* reply is pending, and false whenever no promise or timer of the hook is *)
(* pending.                                                                *)
C28_IsLoadingReflectsPendingWork ==
  rev = "therapy" =>
     /\ (\E f \in inflight : f.op \in {"create", "end", "reply"}) => isLoading
     /\ (\A f \in inflight : f.op = "cleanup") => ~isLoading

(* C29: with autoStart, the effect sends no create request when the last   *)
(* answer of the vendor was a failed create: after a failure only a call   *)
(* of startConversation by the user starts again.                          *)
C29_NoAutomaticRetry ==
  [][(/\ rev \in {"persona", "replica"}
      /\ autoStart
      /\ effectDue
      /\ http'.create = http.create + 1) =>
        ~(answered.op = "create" /\ answered.status # 200)]_vars

(* The state of a hook that its functions read and write *)
ControllerState ==
  <<persona, conversation, conversationRef, messages, isLoading, isConnected,
    error, sessionStatus, inflight, vendorLive, http, notified,
    isVideoEnabled, isAudioEnabled>>

(* C30, as stated: in both hooks a sendMessage with no conversation held   *)
(* fails with 'No active therapy session' and changes nothing.             *)
C30_SendWithoutSessionAsStated ==
  [][(/\ rev \in {"therapy", "persona"}
      /\ SendCalled
      /\ conversation = NoConversation) =>
        /\ thrown' = thrown \cup
             {<<"sendMessage", <<"No active therapy session">>>>}
        /\ UNCHANGED ControllerState]_vars

(* C30, amended: a sendMessage with no conversation held fails, with 'No   *)
(* active therapy session' in useTherapySession and with 'No active        *)
(* conversation' in useTavusConversation, and changes nothing: no message  *)
(* is appended, no reply is scheduled, isLoading and error are left alone  *)
(* and onMessage is not called.                                            *)
C30_SendWithoutSessionFails ==
  [][(SendCalled /\ conversation = NoConversation /\ phase = "mounted") =>
        /\ thrown' = thrown \cup
             {<<"sendMessage",
                IF rev = "therapy" THEN <<"No active therapy session">>
                ELSE <<"No active conversation">>>>}
        /\ UNCHANGED ControllerState]_vars

C30_Witness ==
  /\ rev = "therapy"
  /\ phase = "mounted"
  /\ calls.start = 1
  /\ calls.end = 1
  /\ calls.send = 1
  /\ notified.sessionEnd = 1
  /\ conversation = NoConversation
  /\ messages = <<>>
  /\ thrown = {<<"sendMessage", <<"No active therapy session">>>>}

====
